---- MODULE Spec2Model ----
(***************************************************************************)
(* Topic lifecycle of src/services/topic.service.js: the soft-delete and   *)
(* archive-notify sweeps, archiveTopic, deleteTopic and updateTopic, run   *)
(* by concurrent callers against one topic collection, one token           *)
(* collection and one mail outbox.                                         *)
(*                                                                         *)
(* Every `await` of the source is a call handed to a gateway.  A caller    *)
(* holds the set of its calls that are still in flight; an action performs *)
(* one call in flight (its effect on the store happens there), resumes the *)
(* caller and runs its code up to the next await, which puts the next call *)
(* in flight.  A call in flight may also be rejected, and a caller may     *)
(* crash at any await.                                                     *)
(*                                                                         *)
(* A topic's name, slug and votingAllowed are opaque data no operation     *)
(* here reads; they are left out of the topic record.                      *)
(***************************************************************************)
EXTENDS Integers, Sequences, FiniteSets, TLC

\* ---------------------------------------------------------------- bounds
MaxTicks == 1
MaxTokens == 2
MaxEmails == 2
MaxThreads == 2

\* ------------------------------------------------------ program constants
DeleteAfterDays == 97
NotifyAfterDays == 90

TopicIds == {1, 2}
\* The concurrent callers (processes running the service).
Procs == {1, 2}
Users == {"u1", "u2"}
\* The owner documents populate('owner') expands: u1 has an address, u2 none.
Email(u) == IF u = "u1" THEN "u1@mail" ELSE ""
\* Days (relative to the first day of the run) on which the topics that
\* exist at the start were created: 89, 96 and 97 days old at the start.
CreatedDays == {0 - 89, 0 - 96, 0 - 97}
NoPasscode == 0
\* randomPasscode(1000000, 9999999)
PasscodeMin == 1000000
PasscodeMax == 9999999

VARIABLES
    topics,     \* the Topic collection: id -> persisted document
    tokens,     \* the Token collection: the token values stored
    nextToken,  \* the next token value tokenService mints (never reused)
    sent,       \* the outbox: archive emails sent, per topic
    now,        \* the clock, in days
    procs,      \* the callers: which operation each runs and where it is
    start,      \* history: the Topic collection as it was at the start
    threads     \* the threads of each topic, messages and followers populated

vars == <<topics, tokens, nextToken, sent, now, procs, start, threads>>

Fields == {"exists", "owner", "private", "passcode", "archivable", "archived",
           "isDeleted", "isArchiveNotified", "createdAt"}

\* A slot of the collection that holds no document.
NoTopic ==
    [exists |-> FALSE, owner |-> "u1", private |-> FALSE, passcode |-> NoPasscode,
     archivable |-> FALSE, archived |-> FALSE, isDeleted |-> FALSE,
     isArchiveNotified |-> FALSE, createdAt |-> 0]

\* A document as the schema defaults leave it on creation.
NewTopic(owner, archivable, createdAt) ==
    [exists |-> TRUE, owner |-> owner, private |-> FALSE, passcode |-> NoPasscode,
     archivable |-> archivable, archived |-> FALSE, isDeleted |-> FALSE,
     isArchiveNotified |-> FALSE, createdAt |-> createdAt]

NoSet == [f \in {} |-> TRUE]
NoBody == [f \in {} |-> TRUE]

Idle ==
    [op |-> "idle", id |-> 0, tok |-> 0, body |-> NoBody, date |-> 0,
     batch |-> <<>>, x |-> 0, calls |-> {}, outcome |-> "none"]

Running(p) == procs[p].outcome = "pending"

\* ------------------------------------------------------------- gateways

\* A document as a query returns it: the persisted fields and the id.
Doc(store, t) == [id |-> t] @@ store[t]

\* What a caller keeps of a document it loaded.  After the load the code reads
\* the document only to assign fields and save, and save writes the paths
\* whose assigned value differs from the loaded one: so the caller's copy is
\* the id and those modified paths, `set`.
Loaded(doc, set) == [id |-> doc.id, set |-> set]

\* Ascending sequence of a set of ids (the collection's natural order).
RECURSIVE SortedSeq(_)
SortedSeq(S) ==
    IF S = {} THEN <<>>
    ELSE LET m == CHOOSE a \in S : \A b \in S : a <= b
         IN  <<m>> \o SortedSeq(S \ {m})

\* Topic.find(query): equality on every field of the query but createdAt,
\* which is { $lte: date }.
Matches(rec, query) ==
    /\ rec.exists
    /\ \A f \in DOMAIN query :
          IF f = "createdAt" THEN rec.createdAt <= query.createdAt
          ELSE rec[f] = query[f]

Find(store, query) ==
    LET ids == SortedSeq({t \in TopicIds : Matches(store[t], query)})
    IN  [i \in 1..Len(ids) |-> Doc(store, ids[i])]

\* Mutant: an update that is not idempotent, flipping each modified flag.
Save_flip(store, id, set) ==
    LET old == store[id]
    IN  [store EXCEPT ![id] =
            [f \in Fields |-> IF f \in DOMAIN set THEN ~old[f] ELSE old[f]]]

\* doc.save(): writes the modified paths of the document, and only those.
Save(store, id, set) ==
    LET old == store[id]
    IN  [store EXCEPT ![id] =
            [f \in Fields |-> IF f \in DOMAIN set THEN set[f] ELSE old[f]]]

\* Assigning a path the value it was loaded with does not mark it modified.
Assign(doc, f, v) == IF doc[f] = v THEN NoSet ELSE [g \in {f} |-> v]

Call(kind, x) == [kind |-> kind, x |-> x]

\* What a caller is once its function has returned or thrown: its locals are
\* gone; the operation, its date, its outcome and the loop index it ended at
\* remain.
Finish(pr, outcome) ==
    [Idle EXCEPT !.op = pr.op, !.date = pr.date, !.x = pr.x, !.outcome = outcome]

Begin(op, id, tok, body, date) ==
    [op |-> op, id |-> id, tok |-> tok, body |-> body, date |-> date,
     batch |-> <<>>, x |-> 0, calls |-> {Call("find", 0)}, outcome |-> "pending"]

\* ------------------------------------------- the assignments before a save

\* topics[x].isDeleted = true
deleteOldTopics_set(doc) == Assign(doc, "isDeleted", TRUE)

\* topic.isArchiveNotified = true
emailUsersToArchive_set(doc) == Assign(doc, "isArchiveNotified", TRUE)

\* topic.archived = true
archiveTopic_set(doc) == Assign(doc, "archived", TRUE)

\* Mutant: deleteTopic toggles the flag.
deleteTopic_set_toggle(doc) == [f \in {"isDeleted"} |-> ~doc.isDeleted]

\* topic.isDeleted = true
deleteTopic_set(doc) == Assign(doc, "isDeleted", TRUE)

\* updateDocument(topicBody, topicDoc): every field of the body is assigned
\* to the document; the modified paths are those whose value changed.
updateDocument(body, doc) ==
    LET changed == {f \in DOMAIN body : doc[f] # body[f]}
    IN  [f \in changed |-> body[f]]

SetOf(op, body, doc) ==
    CASE op = "deleteOldTopics" -> deleteOldTopics_set(doc)
      [] op = "emailUsersToArchive" -> emailUsersToArchive_set(doc)
      [] op = "archiveTopic" -> archiveTopic_set(doc)
      [] op = "deleteTopic" -> deleteTopic_set(doc)
      [] op = "updateTopic" -> updateDocument(body, doc)

LoadAll(docs, op, body) ==
    [i \in 1..Len(docs) |-> Loaded(docs[i], SetOf(op, body, docs[i]))]

\* ---------------------------------------------------- the for-await loops

\* The calls one iteration of a sweep's loop awaits, in order.
deleteOldTopics_loop == <<"save">>

\* Mutant: the flag is persisted before the token is minted and the email sent.
emailUsersToArchive_loop_flagFirst == <<"save", "mint", "email">>

emailUsersToArchive_loop == <<"mint", "email", "save">>

\* Mutant: topics.forEach(async ...), every iteration started at once.
LoopEnter_allAtOnce(loop, batch) == {Call(loop[1], i) : i \in 1..Len(batch)}

\* for (let x = 0; x < topics.length; x++): entering the loop puts the first
\* call of the first topic in flight, and nothing when the batch is empty.
LoopEnter(loop, batch) ==
    IF Len(batch) = 0 THEN {} ELSE {Call(loop[1], 1)}

\* The call awaited after call c of the loop has completed: the next call of
\* the same topic, else the first call of the next topic, else none.
LoopAfter(loop, batch, c) ==
    LET k == CHOOSE i \in 1..Len(loop) : loop[i] = c.kind
    IN  IF k < Len(loop) THEN {Call(loop[k + 1], c.x)}
        ELSE IF c.x < Len(batch) THEN {Call(loop[1], c.x + 1)}
        ELSE {}

\* The caller after call c of its loop completed and the loop went on.
Step(pr, loop, c) ==
    LET next == (pr.calls \ {c}) \cup LoopAfter(loop, pr.batch, c)
    IN  IF next = {} THEN Finish(pr, "ok")
        ELSE [pr EXCEPT !.calls = next,
                        !.x = CHOOSE i \in {d.x : d \in next} :
                                 \A d \in next : d.x <= i]

Enter(pr, loop, batch) ==
    LET first == LoopEnter(loop, batch)
    IN  IF first = {} THEN Finish(pr, "ok")
        ELSE [pr EXCEPT !.batch = batch, !.calls = first,
                        !.x = CHOOSE i \in {d.x : d \in first} :
                                 \A d \in first : d.x <= i]

\* ------------------------------------------------------- deleteOldTopics

deleteOldTopics_date(today) == today - DeleteAfterDays

\* Mutant: the query does not exclude the topics already soft-deleted.
deleteOldTopics_query_anyDeleted(date) ==
    [archived |-> FALSE, createdAt |-> date]

\* Mutant: the query does not exclude archived topics.
deleteOldTopics_query_anyArchived(date) ==
    [isDeleted |-> FALSE, createdAt |-> date]

deleteOldTopics_query(date) ==
    [isDeleted |-> FALSE, archived |-> FALSE, createdAt |-> date]

deleteOldTopics_start(p) ==
    /\ ~Running(p)
    /\ procs' = [procs EXCEPT ![p] =
          Begin("deleteOldTopics", 0, 0, NoBody, deleteOldTopics_date(now))]
    /\ UNCHANGED <<topics, tokens, nextToken, sent, now, start, threads>>

deleteOldTopics_find(p) ==
    /\ Running(p) /\ procs[p].op = "deleteOldTopics"
    /\ Call("find", 0) \in procs[p].calls
    /\ procs' = [procs EXCEPT ![p] =
          Enter(@, deleteOldTopics_loop,
                LoadAll(Find(topics, deleteOldTopics_query(procs[p].date)),
                        "deleteOldTopics", NoBody))]
    /\ UNCHANGED <<topics, tokens, nextToken, sent, now, start, threads>>

deleteOldTopics_save(p) ==
    /\ Running(p) /\ procs[p].op = "deleteOldTopics"
    /\ \E c \in procs[p].calls :
          /\ c.kind = "save"
          /\ topics' = Save(topics, procs[p].batch[c.x].id, procs[p].batch[c.x].set)
          /\ procs' = [procs EXCEPT ![p] = Step(@, deleteOldTopics_loop, c)]
    /\ UNCHANGED <<tokens, nextToken, sent, now, start, threads>>

\* --------------------------------------------------- emailUsersToArchive

emailUsersToArchive_date(today) == today - NotifyAfterDays

\* Mutant: the query does not exclude the topics already notified.
emailUsersToArchive_query_anyNotified(date) ==
    [isDeleted |-> FALSE, archived |-> FALSE, archivable |-> TRUE, createdAt |-> date]

emailUsersToArchive_query(date) ==
    [isArchiveNotified |-> FALSE, isDeleted |-> FALSE, archived |-> FALSE,
     archivable |-> TRUE, createdAt |-> date]

\* Mutant: the topics whose owner has no address are not filtered out.
emailUsersToArchive_filter_none(batch) == batch

\* topics.filter((t) => t.owner.email)
emailUsersToArchive_filter(batch) ==
    SelectSeq(batch, LAMBDA d : Email(d.owner) # "")

emailUsersToArchive_start(p) ==
    /\ ~Running(p)
    /\ procs' = [procs EXCEPT ![p] =
          Begin("emailUsersToArchive", 0, 0, NoBody, emailUsersToArchive_date(now))]
    /\ UNCHANGED <<topics, tokens, nextToken, sent, now, start, threads>>

emailUsersToArchive_find(p) ==
    /\ Running(p) /\ procs[p].op = "emailUsersToArchive"
    /\ Call("find", 0) \in procs[p].calls
    /\ procs' = [procs EXCEPT ![p] =
          Enter(@, emailUsersToArchive_loop,
                LoadAll(emailUsersToArchive_filter(
                            Find(topics, emailUsersToArchive_query(procs[p].date))),
                        "emailUsersToArchive", NoBody))]
    /\ UNCHANGED <<topics, tokens, nextToken, sent, now, start, threads>>

\* tokenService.generateArchiveTopicToken(topic.owner): a fresh token value,
\* stored in the Token collection.
emailUsersToArchive_mint(p) ==
    /\ Running(p) /\ procs[p].op = "emailUsersToArchive"
    /\ nextToken <= MaxTokens
    /\ \E c \in procs[p].calls :
          /\ c.kind = "mint"
          /\ tokens' = tokens \cup {nextToken}
          /\ nextToken' = nextToken + 1
          /\ procs' = [procs EXCEPT ![p] =
                Step(@, emailUsersToArchive_loop, c)]
    /\ UNCHANGED <<topics, sent, now, start, threads>>

\* emailService.sendArchiveTopicEmail(topic.owner.email, topic, archiveToken)
emailUsersToArchive_email(p) ==
    /\ Running(p) /\ procs[p].op = "emailUsersToArchive"
    /\ \E c \in procs[p].calls :
          /\ c.kind = "email"
          /\ sent[procs[p].batch[c.x].id] < MaxEmails
          /\ sent' = [sent EXCEPT ![procs[p].batch[c.x].id] = @ + 1]
          /\ procs' = [procs EXCEPT ![p] = Step(@, emailUsersToArchive_loop, c)]
    /\ UNCHANGED <<topics, tokens, nextToken, now, start, threads>>

emailUsersToArchive_save(p) ==
    /\ Running(p) /\ procs[p].op = "emailUsersToArchive"
    /\ \E c \in procs[p].calls :
          /\ c.kind = "save"
          /\ topics' = Save(topics, procs[p].batch[c.x].id, procs[p].batch[c.x].set)
          /\ procs' = [procs EXCEPT ![p] = Step(@, emailUsersToArchive_loop, c)]
    /\ UNCHANGED <<tokens, nextToken, sent, now, start, threads>>

\* ---------------------------------------------------------- archiveTopic

\* Mutant: the token is deleted before archived = true is persisted.
archiveTopic_loop_tokenFirst == <<"deleteToken", "save">>

\* The calls archiveTopic awaits after the topic was found, in order.
archiveTopic_loop == <<"save", "deleteToken">>

archiveTopic_start(p, token, topicId) ==
    /\ ~Running(p)
    /\ procs' = [procs EXCEPT ![p] = Begin("archiveTopic", topicId, token, NoBody, 0)]
    /\ UNCHANGED <<topics, tokens, nextToken, sent, now, start, threads>>

\* Mutant: archiveTopic does not check that the topic was found.
archiveTopic_find_unchecked(p) ==
    /\ Running(p) /\ procs[p].op = "archiveTopic"
    /\ Call("find", 0) \in procs[p].calls
    /\ procs' = [procs EXCEPT ![p] =
          Enter(@, archiveTopic_loop,
                LoadAll(<<Doc(topics, procs[p].id)>>, "archiveTopic", NoBody))]
    /\ UNCHANGED <<topics, tokens, nextToken, sent, now, start, threads>>

\* Topic.findById(topicId); if (!topic) throw new Error('Topic not found')
archiveTopic_find(p) ==
    /\ Running(p) /\ procs[p].op = "archiveTopic"
    /\ Call("find", 0) \in procs[p].calls
    /\ procs' = [procs EXCEPT ![p] =
          IF ~topics[procs[p].id].exists THEN Finish(@, "Error")
          ELSE Enter(@, archiveTopic_loop,
                     LoadAll(<<Doc(topics, procs[p].id)>>, "archiveTopic", NoBody))]
    /\ UNCHANGED <<topics, tokens, nextToken, sent, now, start, threads>>

archiveTopic_save(p) ==
    /\ Running(p) /\ procs[p].op = "archiveTopic"
    /\ \E c \in procs[p].calls :
          /\ c.kind = "save"
          /\ topics' = Save(topics, procs[p].batch[c.x].id, procs[p].batch[c.x].set)
          /\ procs' = [procs EXCEPT ![p] = Step(@, archiveTopic_loop, c)]
    /\ UNCHANGED <<tokens, nextToken, sent, now, start, threads>>

\* Token.deleteOne({ token })
archiveTopic_deleteToken(p) ==
    /\ Running(p) /\ procs[p].op = "archiveTopic"
    /\ \E c \in procs[p].calls :
          /\ c.kind = "deleteToken"
          /\ tokens' = tokens \ {procs[p].tok}
          /\ procs' = [procs EXCEPT ![p] = Step(@, archiveTopic_loop, c)]
    /\ UNCHANGED <<topics, nextToken, sent, now, start, threads>>

\* ----------------------------------------------------------- deleteTopic

deleteTopic_loop == <<"save">>

deleteTopic_start(p, id) ==
    /\ ~Running(p)
    /\ procs' = [procs EXCEPT ![p] = Begin("deleteTopic", id, 0, NoBody, 0)]
    /\ UNCHANGED <<topics, tokens, nextToken, sent, now, start, threads>>

\* Topic.findOne({ _id: id }); if (!topic) throw new ApiError(NOT_FOUND, ...)
deleteTopic_find(p) ==
    /\ Running(p) /\ procs[p].op = "deleteTopic"
    /\ Call("find", 0) \in procs[p].calls
    /\ procs' = [procs EXCEPT ![p] =
          IF ~topics[procs[p].id].exists THEN Finish(@, "NOT_FOUND")
          ELSE Enter(@, deleteTopic_loop,
                     LoadAll(<<Doc(topics, procs[p].id)>>, "deleteTopic", NoBody))]
    /\ UNCHANGED <<topics, tokens, nextToken, sent, now, start, threads>>

deleteTopic_save(p) ==
    /\ Running(p) /\ procs[p].op = "deleteTopic"
    /\ \E c \in procs[p].calls :
          /\ c.kind = "save"
          /\ topics' = Save(topics, procs[p].batch[c.x].id, procs[p].batch[c.x].set)
          /\ procs' = [procs EXCEPT ![p] = Step(@, deleteTopic_loop, c)]
    /\ UNCHANGED <<tokens, nextToken, sent, now, start, threads>>

\* ----------------------------------------------------------- updateTopic

\* Request bodies of an update that set whether the topic is archivable.
ArchivableBodies == [archivable : BOOLEAN]

\* Request bodies of an update that set whether the topic is private.
PrivateBodies == [private : BOOLEAN]

updateTopic_loop == <<"save">>

updateTopic_start(p, id, body) ==
    /\ ~Running(p)
    /\ procs' = [procs EXCEPT ![p] = Begin("updateTopic", id, 0, body, 0)]
    /\ UNCHANGED <<topics, tokens, nextToken, sent, now, start, threads>>

\* Topic.findById(topicBody.id); updateDocument on a missing document throws.
updateTopic_find(p) ==
    /\ Running(p) /\ procs[p].op = "updateTopic"
    /\ Call("find", 0) \in procs[p].calls
    /\ procs' = [procs EXCEPT ![p] =
          IF ~topics[procs[p].id].exists THEN Finish(@, "Error")
          ELSE Enter(@, updateTopic_loop,
                     LoadAll(<<Doc(topics, procs[p].id)>>, "updateTopic", procs[p].body))]
    /\ UNCHANGED <<topics, tokens, nextToken, sent, now, start, threads>>

updateTopic_save(p) ==
    /\ Running(p) /\ procs[p].op = "updateTopic"
    /\ \E c \in procs[p].calls :
          /\ c.kind = "save"
          /\ topics' = Save(topics, procs[p].batch[c.x].id, procs[p].batch[c.x].set)
          /\ procs' = [procs EXCEPT ![p] = Step(@, updateTopic_loop, c)]
    /\ UNCHANGED <<tokens, nextToken, sent, now, start, threads>>

\* ----------------------------------------------------------- createTopic

\* crypto.randomInt(min, max) resolves to an integer n, min <= n < max: the
\* two ends of the range stand for it.
randomInt(min, max) == {min, max - 1}

\* Request bodies of a creation: whether the topic is private and archivable.
CreateBodies == [private : BOOLEAN, archivable : BOOLEAN]

\* let passcode = null; if (topicBody.private) passcode = await randomPasscode(..)
\* The first call createTopic awaits.
createTopic_first(topicBody) == IF topicBody.private THEN "random" ELSE "create"

\* The caller keeps both arguments in `body` and the passcode in `tok`.
createTopic_start(p, topicBody, user) ==
    /\ ~Running(p)
    /\ procs' = [procs EXCEPT ![p] =
          [Begin("createTopic", 0, NoPasscode,
                 [topicBody |-> topicBody, user |-> user], 0)
             EXCEPT !.calls = {Call(createTopic_first(topicBody), 0)}]]
    /\ UNCHANGED <<topics, tokens, nextToken, sent, now, start, threads>>

createTopic_random(p) ==
    /\ Running(p) /\ procs[p].op = "createTopic"
    /\ Call("random", 0) \in procs[p].calls
    /\ \E n \in randomInt(PasscodeMin, PasscodeMax) :
          procs' = [procs EXCEPT ![p] =
             [@ EXCEPT !.tok = n, !.calls = {Call("create", 0)}]]
    /\ UNCHANGED <<topics, tokens, nextToken, sent, now, start, threads>>

\* Topic.create({...}): the document gets the first free id of the collection,
\* the schema's defaults and the creation day.
createTopic_create(p) ==
    /\ Running(p) /\ procs[p].op = "createTopic"
    /\ Call("create", 0) \in procs[p].calls
    /\ \E id \in TopicIds :
          /\ ~topics[id].exists
          /\ \A t \in TopicIds : ~topics[t].exists => id <= t
          /\ topics' = [topics EXCEPT ![id] =
                [NewTopic(procs[p].body.user,
                          procs[p].body.topicBody.archivable, now)
                   EXCEPT !.private = procs[p].body.topicBody.private,
                          !.passcode = procs[p].tok]]
    /\ procs' = [procs EXCEPT ![p] = Finish(@, "ok")]
    /\ UNCHANGED <<tokens, nextToken, sent, now, start, threads>>

\* -------------------------------------------------------- verifyPasscode

\* A JavaScript value: its type and, for a number, the number; for a string,
\* the number the string spells in decimal; null has no value.
Null == [type |-> "null", val |-> 0]
Number(n) == [type |-> "number", val |-> n]
String(n) == [type |-> "string", val |-> n]

\* The value a document's passcode path holds.
PasscodeValue(doc) ==
    IF doc.passcode = NoPasscode THEN Null ELSE Number(doc.passcode)

\* Mutant: a == b, which converts a string to a number before comparing.
LooseEquals(a, b) ==
    IF a.type = "null" \/ b.type = "null" THEN a.type = b.type
    ELSE a.val = b.val

\* a === b
StrictEquals(a, b) == a.type = b.type /\ a.val = b.val

\* The candidates a request may carry: each passcode as a number and as a
\* string, the number 0, and null.
Candidates ==
    {Null, Number(0)}
       \cup {Number(n) : n \in randomInt(PasscodeMin, PasscodeMax)}
       \cup {String(n) : n \in randomInt(PasscodeMin, PasscodeMax)}

\* The caller keeps the candidate in `body`.
verifyPasscode_start(p, topicId, passcode) ==
    /\ ~Running(p)
    /\ procs' = [procs EXCEPT ![p] = Begin("verifyPasscode", topicId, 0, passcode, 0)]
    /\ UNCHANGED <<topics, tokens, nextToken, sent, now, start, threads>>

\* Topic.findById(topicId); return passcode === topic.passcode, which throws
\* a TypeError when no topic was found.
verifyPasscode_find(p) ==
    /\ Running(p) /\ procs[p].op = "verifyPasscode"
    /\ Call("find", 0) \in procs[p].calls
    /\ procs' = [procs EXCEPT ![p] =
          IF ~topics[procs[p].id].exists THEN Finish(@, "TypeError")
          ELSE IF StrictEquals(procs[p].body, PasscodeValue(Doc(topics, procs[p].id)))
               THEN Finish(@, "true")
               ELSE Finish(@, "false")]
    /\ UNCHANGED <<topics, tokens, nextToken, sent, now, start, threads>>

\* -------------------------------------------------- userTopics, allTopics

\* Mutant: the listing query does not exclude deleted topics.
userTopics_query_withDeleted(user) == [owner |-> user]

userTopics_query(user) == [owner |-> user, isDeleted |-> FALSE]

allTopics_query == [isDeleted |-> FALSE]

\* A thread as populated: the createdAt of its messages, in the order of
\* Thread.messages, and the number of its followers.
\* null, for a topic without a message.
NoTime == 0 - 1

\* thread.messages.slice(-1)[0].createdAt
lastCreatedAt(thread) == thread.messages[Len(thread.messages)]

\* threadMsgTimes after t.threads.forEach: the last createdAt of every thread
\* that has a message, in the order of the threads.
RECURSIVE threadMsgTimes(_)
threadMsgTimes(ths) ==
    IF ths = <<>> THEN <<>>
    ELSE (IF Len(Head(ths).messages) > 0 THEN <<lastCreatedAt(Head(ths))>> ELSE <<>>)
            \o threadMsgTimes(Tail(ths))

\* msgCount after t.threads.forEach
RECURSIVE msgCount(_)
msgCount(ths) ==
    IF ths = <<>> THEN 0
    ELSE (IF Len(Head(ths).messages) > 0 THEN Len(Head(ths).messages) ELSE 0)
            + msgCount(Tail(ths))

\* Mutant: followers are summed inside the branch of threads with messages.
RECURSIVE followerCount_withMessages(_)
followerCount_withMessages(ths) ==
    IF ths = <<>> THEN 0
    ELSE (IF Len(Head(ths).messages) > 0 THEN Head(ths).followers ELSE 0)
            + followerCount_withMessages(Tail(ths))

\* followerCount after t.threads.forEach
RECURSIVE followerCount(_)
followerCount(ths) ==
    IF ths = <<>> THEN 0
    ELSE (IF Head(ths).followers > 0 THEN Head(ths).followers ELSE 0)
            + followerCount(Tail(ths))

\* Mutant: the comparator sorts the oldest first.
timeCompare_ascending(a, b) == IF a > b THEN 1 ELSE IF a < b THEN 0 - 1 ELSE 0

\* (a, b) => a < b ? 1 : a > b ? -1 : 0
timeCompare(a, b) == IF a < b THEN 1 ELSE IF a > b THEN 0 - 1 ELSE 0

\* Array.prototype.sort is stable: an element goes before the first element
\* the comparator puts after it, and after every other one.
RECURSIVE InsertTime(_, _)
InsertTime(s, x) ==
    IF s = <<>> THEN <<x>>
    ELSE IF timeCompare(Head(s), x) > 0 THEN <<x>> \o s
    ELSE <<Head(s)>> \o InsertTime(Tail(s), x)

\* threadMsgTimes.sort(...)
RECURSIVE SortTimes(_)
SortTimes(s) ==
    IF s = <<>> THEN <<>>
    ELSE InsertTime(SortTimes(SubSeq(s, 1, Len(s) - 1)), s[Len(s)])

\* threadMsgTimes.length > 0 ? threadMsgTimes[0] : null
latestMessageCreatedAt(ths) ==
    LET sorted == SortTimes(threadMsgTimes(ths))
    IN  IF Len(sorted) > 0 THEN sorted[1] ELSE NoTime

\* new Date(createdAt).getTime(): a createdAt is a Date, kept here as its time
\* value, the milliseconds since the epoch.
getTime(createdAt) == createdAt

\* topic.defaultSortAverage = 0; if (latestMessageCreatedAt && messageCount) ...
defaultSortAverage(latest, messageCount) ==
    IF latest # NoTime /\ messageCount # 0 THEN getTime(latest) * messageCount ELSE 0

\* The POJO pushed for one document t of dbtopics.
Summary(t, ths) ==
    [id |-> t.id, private |-> t.private, owner |-> t.owner,
     latestMessageCreatedAt |-> latestMessageCreatedAt(ths),
     messageCount |-> msgCount(ths),
     threadCount |-> Len(ths),
     follows |-> followerCount(ths),
     defaultSortAverage |->
        defaultSortAverage(latestMessageCreatedAt(ths), msgCount(ths))]

\* Mutant: the comparator sorts the lowest score first.
topicCompare_ascending(a, b) == a.defaultSortAverage - b.defaultSortAverage

\* (a, b) => b.defaultSortAverage - a.defaultSortAverage
topicCompare(a, b) == b.defaultSortAverage - a.defaultSortAverage

RECURSIVE InsertTopic(_, _)
InsertTopic(s, x) ==
    IF s = <<>> THEN <<x>>
    ELSE IF topicCompare(Head(s), x) > 0 THEN <<x>> \o s
    ELSE <<Head(s)>> \o InsertTopic(Tail(s), x)

\* topics.sort(...)
RECURSIVE SortTopics(_)
SortTopics(s) ==
    IF s = <<>> THEN <<>>
    ELSE InsertTopic(SortTopics(SubSeq(s, 1, Len(s) - 1)), s[Len(s)])

\* topicsWithSortData(topicQuery): the documents Topic.find returns, with
\* their threads populated, each scored, sorted by score.
topicsWithSortData(store, topicQuery) ==
    LET dbtopics == Find(store, topicQuery)
    IN  SortTopics([i \in 1..Len(dbtopics) |->
                      Summary(dbtopics[i], threads[dbtopics[i].id])])

userTopics(store, user) == topicsWithSortData(store, userTopics_query(user))

allTopics(store) == topicsWithSortData(store, allTopics_query)

\* The caller keeps the user in `body` and, once returned, the list in `batch`.
userTopics_start(p, user) ==
    /\ ~Running(p)
    /\ procs' = [procs EXCEPT ![p] = Begin("userTopics", 0, 0, [user |-> user], 0)]
    /\ UNCHANGED <<topics, tokens, nextToken, sent, now, start, threads>>

userTopics_find(p) ==
    /\ Running(p) /\ procs[p].op = "userTopics"
    /\ Call("find", 0) \in procs[p].calls
    /\ procs' = [procs EXCEPT ![p] =
          [Finish(@, "ok") EXCEPT !.batch = userTopics(topics, procs[p].body.user)]]
    /\ UNCHANGED <<topics, tokens, nextToken, sent, now, start, threads>>

allTopics_start(p) ==
    /\ ~Running(p)
    /\ procs' = [procs EXCEPT ![p] = Begin("allTopics", 0, 0, NoBody, 0)]
    /\ UNCHANGED <<topics, tokens, nextToken, sent, now, start, threads>>

allTopics_find(p) ==
    /\ Running(p) /\ procs[p].op = "allTopics"
    /\ Call("find", 0) \in procs[p].calls
    /\ procs' = [procs EXCEPT ![p] =
          [Finish(@, "ok") EXCEPT !.batch = allTopics(topics)]]
    /\ UNCHANGED <<topics, tokens, nextToken, sent, now, start, threads>>

\* ------------------------------------------------------ failures, the clock

\* A gateway rejects a call in flight: the await throws, no handler catches
\* it, and the operation ends with the gateway's error.
Reject(p) ==
    /\ Running(p)
    /\ procs[p].calls # {}
    /\ procs' = [procs EXCEPT ![p] = Finish(@, "UpstreamFailure")]
    /\ UNCHANGED <<topics, tokens, nextToken, sent, now, start, threads>>

\* The process dies while an operation awaits: its call is never performed.
Crash(p) ==
    /\ Running(p)
    /\ procs' = [procs EXCEPT ![p] = Finish(@, "crashed")]
    /\ UNCHANGED <<topics, tokens, nextToken, sent, now, start, threads>>

Tick ==
    /\ now < MaxTicks
    /\ now' = now + 1
    /\ UNCHANGED <<topics, tokens, nextToken, sent, procs, start, threads>>

\* ----------------------------------------------------------------- Specs

\* Topics of the start, none deleted or notified yet: an archivable topic of
\* a user with an address, of each age; and, old enough for both sweeps, a
\* topic whose owner has no address, a topic that is not archivable, and a
\* topic an archive action has archived already.
Eligible == {NewTopic("u1", TRUE, d) : d \in CreatedDays}
NoAddress == NewTopic("u2", TRUE, 0 - 97)
NotArchivable == NewTopic("u1", FALSE, 0 - 97)
ArchivedTopic == [NewTopic("u1", TRUE, 0 - 97) EXCEPT !.archived = TRUE]

InitRest ==
    /\ tokens = {}
    /\ nextToken = 1
    /\ sent = [t \in TopicIds |-> 0]
    /\ now = 0
    /\ procs = [p \in Procs |-> Idle]
    /\ start = topics
    /\ threads = [t \in TopicIds |-> <<>>]

\* One caller runs the operations of the service one after another.
Init ==
    /\ topics \in [TopicIds -> {NoTopic, NewTopic("u1", TRUE, 0 - 97), NoAddress}]
    /\ InitRest

Next ==
    \E p \in {1} :
          \/ deleteOldTopics_start(p)
          \/ deleteOldTopics_find(p)
          \/ deleteOldTopics_save(p)
          \/ emailUsersToArchive_start(p)
          \/ emailUsersToArchive_find(p)
          \/ emailUsersToArchive_mint(p)
          \/ emailUsersToArchive_email(p)
          \/ emailUsersToArchive_save(p)
          \/ \E token \in 1..MaxTokens, id \in TopicIds : archiveTopic_start(p, token, id)
          \/ archiveTopic_find(p)
          \/ archiveTopic_save(p)
          \/ archiveTopic_deleteToken(p)
          \/ \E id \in TopicIds : deleteTopic_start(p, id)
          \/ deleteTopic_find(p)
          \/ deleteTopic_save(p)
          \/ \E id \in TopicIds, body \in ArchivableBodies : updateTopic_start(p, id, body)
          \/ updateTopic_find(p)
          \/ updateTopic_save(p)
          \/ Reject(p)
          \/ Crash(p)

Spec == Init /\ [][Next]_vars

\* Two callers run the scheduled sweeps, any number of times, concurrently.
InitSweeps ==
    /\ topics \in [TopicIds -> Eligible \cup {NoAddress, NotArchivable, ArchivedTopic}]
    /\ InitRest

NextSweeps ==
    \/ Tick
    \/ \E p \in Procs :
          \/ deleteOldTopics_start(p)
          \/ deleteOldTopics_find(p)
          \/ deleteOldTopics_save(p)
          \/ emailUsersToArchive_start(p)
          \/ emailUsersToArchive_find(p)
          \/ emailUsersToArchive_mint(p)
          \/ emailUsersToArchive_email(p)
          \/ emailUsersToArchive_save(p)
          \/ Reject(p)
          \/ Crash(p)

SpecSweeps == InitSweeps /\ [][NextSweeps]_vars

\* Two callers run the same sweep, concurrently: a caller starts a sweep only
\* if no caller runs or has run the other one.
OnlySweep(op) == \A q \in Procs : procs[q].op \in {"idle", op}

NextPair ==
    \/ Tick
    \/ \E p \in Procs :
          \/ OnlySweep("deleteOldTopics") /\ deleteOldTopics_start(p)
          \/ deleteOldTopics_find(p)
          \/ deleteOldTopics_save(p)
          \/ OnlySweep("emailUsersToArchive") /\ emailUsersToArchive_start(p)
          \/ emailUsersToArchive_find(p)
          \/ emailUsersToArchive_mint(p)
          \/ emailUsersToArchive_email(p)
          \/ emailUsersToArchive_save(p)
          \/ Reject(p)
          \/ Crash(p)

SpecPair == InitSweeps /\ [][NextPair]_vars

\* One caller creates topics, updates whether they are private, verifies
\* passcodes and soft-deletes topics.
PrivateTopic ==
    [NewTopic("u1", TRUE, 0) EXCEPT !.private = TRUE, !.passcode = PasscodeMin]

InitAccess ==
    /\ topics \in [TopicIds -> {NoTopic, NewTopic("u1", TRUE, 0), PrivateTopic}]
    /\ InitRest

NextAccess ==
    \E p \in {1} :
          \/ \E topicBody \in CreateBodies, user \in Users :
                createTopic_start(p, topicBody, user)
          \/ createTopic_random(p)
          \/ createTopic_create(p)
          \/ \E id \in TopicIds, body \in PrivateBodies :
                updateTopic_start(p, id, body)
          \/ updateTopic_find(p)
          \/ updateTopic_save(p)
          \/ \E id \in TopicIds, passcode \in Candidates :
                verifyPasscode_start(p, id, passcode)
          \/ verifyPasscode_find(p)
          \/ \E id \in TopicIds : deleteTopic_start(p, id)
          \/ deleteTopic_find(p)
          \/ deleteTopic_save(p)
          \/ Reject(p)
          \/ Crash(p)

SpecAccess == InitAccess /\ [][NextAccess]_vars

\* Threads as the Thread collection may hold them: with messages in creation
\* order, without a message, with and without followers.
ThreadSamples ==
    {[messages |-> <<100, 300>>, followers |-> 0],
     [messages |-> <<50, 200, 500>>, followers |-> 3],
     [messages |-> <<400, 900>>, followers |-> 1],
     [messages |-> <<500>>, followers |-> 0],
     [messages |-> <<>>, followers |-> 2]}

ThreadLists == UNION {[1..n -> ThreadSamples] : n \in 0..MaxThreads}

\* One caller lists the topics of a collection whose topics have threads.
InitScoring ==
    /\ topics \in [TopicIds ->
          {NewTopic("u1", TRUE, 0), NewTopic("u2", TRUE, 0),
           [NewTopic("u1", TRUE, 0) EXCEPT !.isDeleted = TRUE]}]
    /\ threads \in [TopicIds -> ThreadLists]
    /\ tokens = {}
    /\ nextToken = 1
    /\ sent = [t \in TopicIds |-> 0]
    /\ now = 0
    /\ procs = [p \in Procs |-> Idle]
    /\ start = topics

NextScoring ==
    \E p \in {1} :
          \/ \E user \in Users : userTopics_start(p, user)
          \/ userTopics_find(p)
          \/ allTopics_start(p)
          \/ allTopics_find(p)
          \/ Reject(p)
          \/ Crash(p)

SpecScoring == InitScoring /\ [][NextScoring]_vars

\* Caller 1 is the scheduler, running the sweeps; caller 2 serves requests,
\* archiving and soft-deleting single topics meanwhile.
InitRace ==
    /\ topics \in [TopicIds -> {NewTopic("u1", TRUE, 0 - 97), NoAddress}]
    /\ InitRest

NextRace ==
    \/ \E p \in {1} :
          \/ deleteOldTopics_start(p)
          \/ deleteOldTopics_find(p)
          \/ deleteOldTopics_save(p)
          \/ emailUsersToArchive_start(p)
          \/ emailUsersToArchive_find(p)
          \/ emailUsersToArchive_mint(p)
          \/ emailUsersToArchive_email(p)
          \/ emailUsersToArchive_save(p)
    \/ \E p \in {2} :
          \/ \E token \in 1..MaxTokens, id \in TopicIds : archiveTopic_start(p, token, id)
          \/ archiveTopic_find(p)
          \/ archiveTopic_save(p)
          \/ archiveTopic_deleteToken(p)
          \/ \E id \in TopicIds : deleteTopic_start(p, id)
          \/ deleteTopic_find(p)
          \/ deleteTopic_save(p)
    \/ \E p \in Procs :
          \/ Reject(p)
          \/ Crash(p)

SpecRace == InitRace /\ [][NextRace]_vars

\* The scheduler alone: one caller runs the sweeps one after another, and no
\* gateway call fails.  A call in flight completes and its caller resumes.
Resume ==
    \/ deleteOldTopics_find(1)
    \/ deleteOldTopics_save(1)
    \/ emailUsersToArchive_find(1)
    \/ emailUsersToArchive_mint(1)
    \/ emailUsersToArchive_email(1)
    \/ emailUsersToArchive_save(1)

NextSerial ==
    \/ Tick
    \/ deleteOldTopics_start(1)
    \/ emailUsersToArchive_start(1)
    \/ Resume

SpecSerial == InitSweeps /\ [][NextSerial]_vars /\ WF_vars(Resume)

\* ---------------------------------------------------------------- claims

Sweeps == {"deleteOldTopics", "emailUsersToArchive"}

\* The flag a sweep persists.
FlagOf(op) == IF op = "deleteOldTopics" THEN "isDeleted" ELSE "isArchiveNotified"

Ids(batch) == {batch[i].id : i \in 1..Len(batch)}

Age(t) == now - topics[t].createdAt

\* C1 (SpecSweeps): whatever crashed or failed, a topic whose persisted
\* isArchiveNotified is true has had a token minted and at least one archive
\* email sent for it; and a caller whose save of the flag is in flight has
\* sent that topic's email already.
C1_NotifiedWasEmailed ==
    /\ \A t \in TopicIds :
          topics[t].isArchiveNotified => sent[t] >= 1 /\ nextToken > 1
    /\ \A p \in Procs : \A c \in procs[p].calls :
          (procs[p].op = "emailUsersToArchive" /\ c.kind = "save")
             => sent[procs[p].batch[c.x].id] >= 1

\* A sweep failed upstream, and a notified topic has had its email twice.
C1_Witness ==
    \E t \in TopicIds, p \in Procs :
        /\ topics[t].isArchiveNotified /\ sent[t] = 2
        /\ procs[p].op = "emailUsersToArchive"
        /\ procs[p].outcome = "UpstreamFailure"

\* C3 (SpecSweeps): a soft-deleted topic exists, is not archived and was
\* created at least 97 days ago; a run of deleteOldTopics computes its date
\* as 97 days before a day of the clock; and when a run has returned, every
\* existing, non-archived topic created at least 97 days before the run's
\* day is soft-deleted (so one 96 days old is not, one 98 days old is).
C3_SoftDeleteExact ==
    /\ \A t \in TopicIds :
          topics[t].isDeleted =>
             topics[t].exists /\ ~topics[t].archived /\ Age(t) >= 97
    /\ \A p \in Procs :
          procs[p].op = "deleteOldTopics" =>
             \E day \in 0..now :
                /\ procs[p].date = day - 97
                /\ procs[p].outcome = "ok" =>
                      \A t \in TopicIds :
                         (topics[t].exists /\ ~topics[t].archived
                            /\ day - topics[t].createdAt >= 97)
                            => topics[t].isDeleted

\* A run has returned; a topic 98 days old is soft-deleted and an archived
\* topic of that age is not.
C3_Witness ==
    \E p \in Procs, t \in TopicIds, u \in TopicIds :
        /\ procs[p].op = "deleteOldTopics" /\ procs[p].outcome = "ok"
        /\ topics[t].isDeleted /\ Age(t) = 98
        /\ topics[u].archived /\ ~topics[u].isDeleted /\ Age(u) = 98

\* C8 (SpecSweeps): a running sweep has at most one call in flight, and
\* when its call for topic k is in flight the saves of topics 1..k-1 have
\* completed (their flag is persisted).
C8_Sequential ==
    \A p \in Procs :
        (Running(p) /\ procs[p].op \in Sweeps) =>
           /\ Cardinality(procs[p].calls) <= 1
           /\ \A c \in procs[p].calls : \A j \in 1..(c.x - 1) :
                 topics[procs[p].batch[j].id][FlagOf(procs[p].op)]

\* Both sweeps are on their second topic at the same time.
C8_Witness ==
    /\ procs[1].op = "emailUsersToArchive" /\ Call("mint", 2) \in procs[1].calls
    /\ procs[2].op = "deleteOldTopics" /\ Call("save", 2) \in procs[2].calls

\* The sweep's query and filter, as the claim states them, at a run of `day`.
C4_Selectable(t, day) ==
    /\ topics[t].exists
    /\ topics[t].archivable
    /\ ~topics[t].isArchiveNotified
    /\ ~topics[t].isDeleted
    /\ ~topics[t].archived
    /\ day - topics[t].createdAt >= 90
    /\ Email(topics[t].owner) # ""

\* No topic that is not archivable, is archived, is younger than 90 days or
\* whose owner has no address has been sent an email or been flagged.
C4_NeverNotified ==
    \A t \in TopicIds :
        (sent[t] > 0 \/ topics[t].isArchiveNotified) =>
           /\ topics[t].exists /\ topics[t].archivable /\ ~topics[t].archived
           /\ Age(t) >= 90 /\ Email(topics[t].owner) # ""

\* C4 (SpecSweeps): emailUsersToArchive selects exactly the topics that, when
\* it queries, are archivable, not notified, not deleted, not archived, at
\* least 90 days old and owned by a user with an address; it sends an email
\* for, and sets isArchiveNotified on, topics of that selection only; so a
\* topic that is not archivable, archived, younger than 90 days or without an
\* owner address is never emailed and keeps isArchiveNotified = false.
C4_NotifySelection ==
    [][/\ C4_NeverNotified /\ C4_NeverNotified'
       /\ \A p \in Procs :
             (/\ procs[p].op = "emailUsersToArchive"
              /\ Call("find", 0) \in procs[p].calls
              /\ procs'[p] # procs[p]
              /\ procs'[p].outcome \in {"pending", "ok"})
             => \E day \in 0..now :
                   /\ procs[p].date = day - 90
                   /\ Ids(procs'[p].batch) =
                         {t \in TopicIds : C4_Selectable(t, day)}
       /\ \A t \in TopicIds :
             (sent'[t] # sent[t]
                \/ topics'[t].isArchiveNotified # topics[t].isArchiveNotified)
             => \E p \in Procs :
                   /\ procs'[p] # procs[p]
                   /\ procs[p].op = "emailUsersToArchive"
                   /\ t \in Ids(procs[p].batch)]_vars

\* A sweep has returned having notified one topic, while an old archivable
\* topic whose owner has no address was neither emailed nor flagged.
C4_Witness ==
    \E p \in Procs, t \in TopicIds, u \in TopicIds :
        /\ procs[p].op = "emailUsersToArchive" /\ procs[p].outcome = "ok"
        /\ topics[t].isArchiveNotified /\ sent[t] >= 1
        /\ topics[u] = NoAddress /\ sent[u] = 0

\* What one run of a sweep that queries on `date` leaves of a collection.
C9_Selected(store, op, date) ==
    IF op = "deleteOldTopics"
    THEN Ids(Find(store, deleteOldTopics_query(date)))
    ELSE Ids(emailUsersToArchive_filter(
                Find(store, emailUsersToArchive_query(date))))

C9_SingleRun(store, op, date) ==
    [t \in TopicIds |->
        IF t \in C9_Selected(store, op, date)
        THEN [store[t] EXCEPT ![FlagOf(op)] = TRUE]
        ELSE store[t]]

C9_LaterDate == IF procs[1].date >= procs[2].date THEN procs[1].date ELSE procs[2].date

\* C9 (SpecPair): while two callers run the same sweep concurrently, a
\* topic is either as it was at the start or differs from it only by the
\* sweep's flag being true, and only if it matched the sweep's predicate;
\* once both runs have returned, the collection is the one a single run
\* (querying on the later of the two dates) leaves of the start collection.
C9_ConcurrentSweepsSafe ==
    \A op \in Sweeps :
        (\E p \in Procs : procs[p].op = op) =>
           /\ \A t \in TopicIds :
                 \/ topics[t] = start[t]
                 \/ /\ topics[t] = [start[t] EXCEPT ![FlagOf(op)] = TRUE]
                    /\ \E day \in 0..now :
                          t \in C9_Selected(start, op,
                                  IF op = "deleteOldTopics" THEN day - 97 ELSE day - 90)
           /\ (\A p \in Procs : procs[p].op = op /\ procs[p].outcome = "ok")
                 => topics = C9_SingleRun(start, op, C9_LaterDate)

\* Both runs selected the same topic, emailed it and returned.
C9_Witness ==
    /\ \A p \in Procs :
          /\ procs[p].op = "emailUsersToArchive"
          /\ procs[p].outcome = "ok" /\ procs[p].x = 1
    /\ \E t \in TopicIds : sent[t] = 2 /\ topics[t].isArchiveNotified

C5_ArchiveThenConsume ==
    [][\A p \in Procs :
          /\ (procs[p].op = "archiveTopic" /\ Call("deleteToken", 1) \in procs[p].calls)
                => topics[procs[p].id].archived
          /\ (procs[p].op = "archiveTopic" /\ procs'[p].outcome = "ok" /\ Running(p))
                => /\ Call("deleteToken", 1) \in procs[p].calls
                   /\ tokens' = tokens \ {procs[p].tok}
                   /\ topics'[procs[p].id].archived
          /\ (tokens \ tokens' # {})
                => \E q \in Procs :
                      /\ procs[q].op = "archiveTopic"
                      /\ Call("deleteToken", 1) \in procs[q].calls
                      /\ procs'[q].outcome = "ok"]_vars

\* archiveTopic returned: the topic is archived and a minted token is gone.
C5_Witness ==
    /\ procs[1].op = "archiveTopic" /\ procs[1].outcome = "ok"
    /\ \E k \in 1..(nextToken - 1) : k \notin tokens
    /\ \E t \in TopicIds : topics[t].archived /\ ~start[t].archived

\* C6 (Spec): the step that resumes archiveTopic or deleteTopic after the
\* lookup of a topic that does not exist ends the operation with an error
\* (Error for archiveTopic, NOT_FOUND for deleteTopic, or the failure of the
\* lookup itself) and changes no topic, no token and no email count.
C6_NotFound ==
    [][\A p \in Procs :
          (/\ procs[p].op \in {"archiveTopic", "deleteTopic"}
           /\ Call("find", 0) \in procs[p].calls
           /\ ~topics[procs[p].id].exists
           /\ procs'[p] # procs[p])
          => /\ procs'[p].outcome \in
                   {IF procs[p].op = "archiveTopic" THEN "Error" ELSE "NOT_FOUND",
                    "UpstreamFailure", "crashed"}
             /\ procs'[p].calls = {}
             /\ UNCHANGED <<topics, tokens, nextToken, sent>>]_vars

\* archiveTopic has thrown its Error while a token is stored, and no topic
\* is archived.
C6_Witness ==
    /\ procs[1].op = "archiveTopic" /\ procs[1].outcome = "Error"
    /\ tokens # {}
    /\ \A t \in TopicIds : ~topics[t].archived

\* C7 (Spec): in every state, allTopics() and userTopics(user) return no
\* topic whose isDeleted is true, allTopics returns every existing topic
\* that is not deleted, and userTopics(user) only topics owned by user.
C7_ListingsExcludeDeleted ==
    /\ Ids(allTopics(topics)) =
          {t \in TopicIds : topics[t].exists /\ ~topics[t].isDeleted}
    /\ \A u \in Users :
          Ids(userTopics(topics, u)) =
             {t \in TopicIds : topics[t].exists /\ ~topics[t].isDeleted
                                  /\ topics[t].owner = u}

\* deleteTopic has deleted one topic of u1; another topic of u1 is listed.
C7_Witness ==
    /\ procs[1].op = "deleteTopic" /\ procs[1].outcome = "ok"
    /\ \E t \in TopicIds, u \in TopicIds :
          /\ topics[t].isDeleted /\ topics[t].owner = "u1"
          /\ t \notin Ids(userTopics(topics, "u1"))
          /\ u \in Ids(userTopics(topics, "u1"))

\* C10 (Spec): when a save, a token mint or an email send is rejected while a
\* sweep processes topic k of its batch, the sweep ends with the gateway's
\* error, the step changes no topic, topics 1..k-1 of the batch have their
\* flag persisted, and topic k and the later ones have the flag false, as
\* they had when the sweep selected them.
C10_NoRollback ==
    [][\A p \in Procs :
          (/\ procs[p].op \in Sweeps
           /\ Running(p)
           /\ procs[p].x >= 1
           /\ procs'[p].outcome = "UpstreamFailure")
          => /\ topics' = topics
             /\ procs'[p].x = procs[p].x
             /\ \A j \in 1..Len(procs[p].batch) :
                   topics'[procs[p].batch[j].id][FlagOf(procs[p].op)]
                      = (j < procs[p].x)]_vars

\* emailUsersToArchive failed at its second topic: the first is notified,
\* the second is not.
C10_Witness ==
    /\ procs[1].op = "emailUsersToArchive"
    /\ procs[1].outcome = "UpstreamFailure" /\ procs[1].x = 2
    /\ topics[1].isArchiveNotified /\ ~topics[2].isArchiveNotified

\* The soft-delete predicate, on the collection as it is now.
C11_StillMatches(t, date) ==
    /\ topics[t].exists
    /\ ~topics[t].isDeleted
    /\ ~topics[t].archived
    /\ topics[t].createdAt <= date

\* C11 (SpecSweeps): whatever runs of deleteOldTopics came before, complete
\* or failed part-way, a run selects exactly the topics that match the
\* predicate when it queries (so none that is soft-deleted already), it
\* modifies only topics it selected, and only by setting isDeleted; and a run
\* that queries after a run of the same or a later date has returned selects
\* nothing and returns without a change.
C11_Idempotent ==
    [][\A p \in Procs :
          /\ (/\ procs[p].op = "deleteOldTopics"
              /\ Call("find", 0) \in procs[p].calls
              /\ procs'[p] # procs[p]
              /\ procs'[p].outcome \in {"pending", "ok"})
             => /\ Ids(procs'[p].batch) =
                      {t \in TopicIds : C11_StillMatches(t, procs[p].date)}
                /\ topics' = topics
                /\ (\E q \in Procs \ {p} :
                       /\ procs[q].op = "deleteOldTopics"
                       /\ procs[q].outcome = "ok"
                       /\ procs[q].date >= procs[p].date)
                      => procs'[p].outcome = "ok" /\ procs'[p].x = 0
          /\ (/\ procs[p].op = "deleteOldTopics"
              /\ procs'[p] # procs[p]
              /\ topics' # topics)
             => \E c \in procs[p].calls :
                   /\ c.kind = "save"
                   /\ ~topics[procs[p].batch[c.x].id].isDeleted
                   /\ topics' = [topics EXCEPT
                                   ![procs[p].batch[c.x].id].isDeleted = TRUE]]_vars

\* A run failed at its second topic, having soft-deleted the first; the run
\* after it selected the second topic only, and returned.
C11_Witness ==
    \E p \in Procs, q \in Procs :
        /\ procs[q].op = "deleteOldTopics"
        /\ procs[q].outcome = "UpstreamFailure" /\ procs[q].x = 2
        /\ procs[p].op = "deleteOldTopics"
        /\ procs[p].outcome = "ok" /\ procs[p].x = 1
        /\ \A t \in TopicIds : topics[t].isDeleted

\* C12 (SpecAccess): every topic has a passcode if and only if it is private.
C12_PasscodeIffPrivate ==
    \A t \in TopicIds :
        topics[t].exists => ((topics[t].passcode # NoPasscode) <=> topics[t].private)

\* The candidate is the value stored in the topic's passcode path: the same
\* number, or null when the topic has no passcode.
C13_IsStored(candidate, t) ==
    \/ /\ topics[t].passcode # NoPasscode
       /\ candidate.type = "number"
       /\ candidate.val = topics[t].passcode
    \/ /\ topics[t].passcode = NoPasscode
       /\ candidate.type = "null"

\* C13 (SpecAccess): the step that resumes verifyPasscode after the lookup of
\* an existing topic returns true if the candidate is the stored passcode
\* value and false for every other candidate (null or the passcode's digits
\* as a string, against a stored number, included), and changes no topic.
C13_VerifyExact ==
    [][\A p \in Procs :
          (/\ procs[p].op = "verifyPasscode"
           /\ Call("find", 0) \in procs[p].calls
           /\ topics[procs[p].id].exists
           /\ procs'[p] # procs[p]
           /\ procs'[p].outcome \notin {"UpstreamFailure", "crashed"})
          => /\ procs'[p].outcome =
                   IF C13_IsStored(procs[p].body, procs[p].id) THEN "true" ELSE "false"
             /\ (procs[p].body.type = "null" /\ topics[procs[p].id].private
                    /\ topics[procs[p].id].passcode # NoPasscode)
                   => procs'[p].outcome = "false"
             /\ UNCHANGED <<topics, tokens, nextToken, sent>>]_vars

\* verifyPasscode has returned true, and a private topic that createTopic
\* created holds a passcode.
C13_Witness ==
    /\ procs[1].op = "verifyPasscode" /\ procs[1].outcome = "true"
    /\ \E t \in TopicIds :
          topics[t].private /\ topics[t].passcode = PasscodeMax - 1

\* The lists userTopics and allTopics have returned.
Listings ==
    {procs[p].batch : p \in {q \in Procs :
        procs[q].op \in {"userTopics", "allTopics"} /\ procs[q].outcome = "ok"}}

\* The sum of f over the threads k..Len(ths) of a topic.
RECURSIVE C14_Sum(_, _, _)
C14_Sum(ths, k, f) ==
    IF k > Len(ths) THEN 0
    ELSE (IF f = "messages" THEN Len(ths[k].messages) ELSE ths[k].followers)
            + C14_Sum(ths, k + 1, f)

\* C14 (SpecScoring): every summary of a returned list has messageCount the
\* sum of its threads' message counts, follows the sum of its threads'
\* follower counts (threads without messages included), threadCount the
\* number of threads; and a topic without threads has messageCount 0,
\* follows 0, latestMessageCreatedAt null and defaultSortAverage 0.
C14_Counts ==
    \A list \in Listings : \A i \in 1..Len(list) :
        LET ths == threads[list[i].id]
        IN  /\ list[i].messageCount = C14_Sum(ths, 1, "messages")
            /\ list[i].follows = C14_Sum(ths, 1, "followers")
            /\ list[i].threadCount = Len(ths)
            /\ Len(ths) = 0 =>
                  /\ list[i].messageCount = 0
                  /\ list[i].follows = 0
                  /\ list[i].latestMessageCreatedAt = NoTime
                  /\ list[i].defaultSortAverage = 0

\* A returned list holds a topic without threads and a topic whose only
\* followers follow a thread without messages.
C14_Witness ==
    \E list \in Listings : \E i \in 1..Len(list), j \in 1..Len(list) :
        /\ list[i].threadCount = 0 /\ list[i].defaultSortAverage = 0
        /\ list[j].threadCount = 2 /\ list[j].follows = 2
        /\ list[j].messageCount = 2

\* The createdAt of the last message of each thread that has messages.
C15_LastTimes(ths) ==
    {ths[k].messages[Len(ths[k].messages)] :
        k \in {n \in 1..Len(ths) : Len(ths[n].messages) > 0}}

\* C15 (SpecScoring): every summary of a returned list has
\* latestMessageCreatedAt the greatest of the last-message timestamps of its
\* threads (null if no thread has a message), and defaultSortAverage 0 when
\* latestMessageCreatedAt is null or messageCount is 0, and otherwise the
\* epoch milliseconds of latestMessageCreatedAt times messageCount.
C15_Score ==
    \A list \in Listings : \A i \in 1..Len(list) :
        LET last == C15_LastTimes(threads[list[i].id])
            latest == list[i].latestMessageCreatedAt
        IN  /\ IF last = {} THEN latest = NoTime
               ELSE latest \in last /\ \A m \in last : m <= latest
            /\ list[i].defaultSortAverage =
                  IF latest = NoTime \/ list[i].messageCount = 0 THEN 0
                  ELSE latest * list[i].messageCount

\* The scenario: threads with messages at 100, 300 and at 50, 200, 500 (the
\* latter with 3 followers) give 5 messages, latest 500, score 2500.
C15_Witness ==
    \E list \in Listings : \E i \in 1..Len(list) :
        /\ threads[list[i].id] =
              <<[messages |-> <<100, 300>>, followers |-> 0],
                [messages |-> <<50, 200, 500>>, followers |-> 3]>>
        /\ list[i].messageCount = 5 /\ list[i].threadCount = 2
        /\ list[i].follows = 3
        /\ list[i].latestMessageCreatedAt = 500
        /\ list[i].defaultSortAverage = 2500

\* The place of topic id in the order the gateway returns the documents.
C16_GatewayIndex(id) ==
    LET dbtopics == Find(topics, allTopics_query)
    IN  CHOOSE k \in 1..Len(dbtopics) : dbtopics[k].id = id

\* C16 (SpecScoring): a returned list holds each document the gateway
\* returned once, in non-increasing order of defaultSortAverage, and topics
\* of equal defaultSortAverage in the order the gateway returned them.
C16_Sorted ==
    \A p \in Procs :
        (procs[p].op \in {"userTopics", "allTopics"} /\ procs[p].outcome = "ok") =>
           LET list == procs[p].batch
           IN  /\ \A i \in 1..Len(list), j \in 1..Len(list) :
                     i < j =>
                        /\ list[i].defaultSortAverage >= list[j].defaultSortAverage
                        /\ list[i].defaultSortAverage = list[j].defaultSortAverage
                              => C16_GatewayIndex(list[i].id) < C16_GatewayIndex(list[j].id)
               /\ procs[p].op = "allTopics" =>
                     /\ Len(list) = Len(Find(topics, allTopics_query))
                     /\ Ids(list) = Ids(Find(topics, allTopics_query))

\* allTopics returned the topic scored 2500, which the gateway returned
\* second, before the topic scored 1800.
C16_Witness ==
    /\ procs[1].op = "allTopics" /\ procs[1].outcome = "ok"
    /\ Len(procs[1].batch) = 2
    /\ procs[1].batch[1].defaultSortAverage = 2500 /\ procs[1].batch[1].id = 2
    /\ procs[1].batch[2].defaultSortAverage = 1800 /\ procs[1].batch[2].id = 1

\* C17 (Spec): every archived topic has isArchiveNotified = true.
C17_ArchivedWasNotified ==
    \A t \in TopicIds : topics[t].archived => topics[t].isArchiveNotified

\* C18 (SpecRace): no topic is both archived and soft-deleted.
C18_NeverArchivedAndDeleted ==
    \A t \in TopicIds : ~(topics[t].archived /\ topics[t].isDeleted)

\* C19 (SpecRace): a step that sends the archive email of a topic finds the
\* topic neither archived nor soft-deleted.
C19_NoEmailForGone ==
    [][\A t \in TopicIds :
          sent'[t] > sent[t] => ~topics[t].archived /\ ~topics[t].isDeleted]_vars

C20_Notified == {t \in TopicIds : topics[t].isArchiveNotified}

\* The emails sent so far, over all topics.
RECURSIVE C20_Sent(_)
C20_Sent(S) ==
    IF S = {} THEN 0
    ELSE LET t == CHOOSE u \in S : TRUE IN sent[t] + C20_Sent(S \ {t})

\* What a run of emailUsersToArchive has done when its call c is in flight:
\* one token and one email for each topic before c.x, none for the topics
\* after it, and for topic c.x whatever precedes call c in the iteration.
C20_RunSoFar(p) ==
    \A c \in procs[p].calls :
        /\ \A j \in 1..Len(procs[p].batch) :
              LET t == procs[p].batch[j].id
              IN  /\ sent[t] = IF j < c.x \/ (j = c.x /\ c.kind = "save") THEN 1 ELSE 0
                  /\ topics[t].isArchiveNotified = (j < c.x)
        /\ nextToken - 1 = Cardinality(C20_Notified)
                              + (IF c.kind \in {"email", "save"} THEN 1 ELSE 0)

\* C20 (SpecSerial): with no failing call and no overlapping sweeps, a run of
\* emailUsersToArchive mints one token and sends one email per selected
\* topic, in order, and returns; when it has returned every topic it could
\* select is notified, each notified topic has had exactly one email and one
\* token, the others none; and no topic ever has a second email.
C20_ExactlyOnce ==
    /\ [](\A t \in TopicIds : sent[t] <= 1)
    /\ [](\A p \in {1} :
            (procs[p].op = "emailUsersToArchive" /\ Running(p)) => C20_RunSoFar(p))
    /\ [](~Running(1) =>
            /\ \A t \in TopicIds :
                  sent[t] = IF topics[t].isArchiveNotified THEN 1 ELSE 0
            /\ nextToken - 1 = Cardinality(C20_Notified)
            /\ C20_Sent(TopicIds) = Cardinality(C20_Notified))
    /\ []((procs[1].op = "emailUsersToArchive" /\ procs[1].outcome = "ok") =>
            C9_Selected(topics, "emailUsersToArchive", procs[1].date) = {})
    /\ ((procs[1].op = "emailUsersToArchive" /\ Running(1))
            ~> (procs[1].op = "emailUsersToArchive" /\ procs[1].outcome = "ok"))

\* After a run that notified both topics, a second run selected nothing and
\* returned: two tokens and one email per topic in all.
C20_Witness ==
    /\ procs[1].op = "emailUsersToArchive"
    /\ procs[1].outcome = "ok" /\ procs[1].x = 0
    /\ \A t \in TopicIds : topics[t].isArchiveNotified /\ sent[t] = 1
    /\ nextToken = 3

====
